---- MODULE Spec2Model ----
(***************************************************************************)
(* The atlance travel-photo pipeline: a root agent that is given three     *)
(* sub-agents as agent tools (delegating-root composition), the output     *)
(* schemas two of them declare, and the search agent the extractor is      *)
(* given.  One behaviour of the model is one run (one invocation) of the   *)
(* root agent over one batch of images.                                    *)
(***************************************************************************)
EXTENDS Integers, Sequences, FiniteSets, TLC

\* ------------------------------------------------------------- bounds
MaxBatch == 1       \* largest batch of images a run is started with
MaxCalls == 2       \* delegation calls issued in one run
MaxSearches == 1    \* web searches made in one run

\* The count the selection prompt asks for ("the 3 most interesting").
MaxSelected == 3
\* Candidate lists are enumerated up to one element beyond that count.
MaxLen == MaxSelected + 1

\* ------------------------------------------------------------- agents
\* The agents by the names the package gives them.  The selection agent is
\* imported as duplicate_remover_agent; its own file names it root_agent.
am == "root_agent"
duplicate_remover_agent == "duplicate_remover_agent"
data_extractor_agent == "data_extractor_agent"
question_asker == "question_asker"
Agent_Search == "SearchAgent"
landmark_search_agent == "landmark_search_agent"
google_search == "google_search"

a1 == duplicate_remover_agent
a2 == data_extractor_agent
a3 == question_asker

Agents ==
    {am, duplicate_remover_agent, data_extractor_agent, question_asker,
     Agent_Search, landmark_search_agent}

\* tools=[...] of each agent.
am_tools_with_landmark == {a1, a2, a3, landmark_search_agent}
am_tools == {a1, a2, a3}
data_extractor_agent_tools == {Agent_Search}
Agent_Search_tools == {google_search}
landmark_search_agent_tools == {google_search}

tools(agent) ==
    CASE agent = am -> am_tools
      [] agent = data_extractor_agent -> data_extractor_agent_tools
      [] agent = Agent_Search -> Agent_Search_tools
      [] agent = landmark_search_agent -> landmark_search_agent_tools
      [] OTHER -> {}

\* sub_agents=[...]: no agent of the repository passes it, the root wires
\* its three delegates as tools only.
am_sub_agents_wired == {a1, a2, a3}
am_sub_agents == {}

sub_agents(agent) == IF agent = am THEN am_sub_agents ELSE {}

NoAgent == "none"

parent_agent(agent) ==
    IF \E p \in Agents : agent \in sub_agents(p)
    THEN CHOOSE p \in Agents : agent \in sub_agents(p)
    ELSE NoAgent

disallow_transfer_to_parent(agent) == agent = landmark_search_agent
disallow_transfer_to_peers(agent) == agent = landmark_search_agent

\* The agents an agent may hand control to: its sub-agents, its parent
\* unless disallowed, and its parent's other sub-agents unless disallowed.
TransferTargets(agent) ==
    sub_agents(agent)
    \cup (IF parent_agent(agent) # NoAgent /\ ~disallow_transfer_to_parent(agent)
          THEN {parent_agent(agent)} ELSE {})
    \cup (IF parent_agent(agent) # NoAgent /\ ~disallow_transfer_to_peers(agent)
          THEN sub_agents(parent_agent(agent)) \ {agent} ELSE {})

\* Everything an agent can invoke as another agent.
Callable(agent) == (tools(agent) \cap Agents) \cup TransferTargets(agent)

output_schema(agent) ==
    CASE agent = duplicate_remover_agent -> "ImageSelectionResponse"
      [] agent = data_extractor_agent -> "DataExtractionResponse"
      [] OTHER -> "none"

\* ------------------------------------------------- candidate outputs
SeqsUpTo(S, n) == UNION {[1..k -> S] : k \in 0..n}

\* A JSON value as the model returns it: an integer, or something that is
\* no integer (a non-numeric string).
IntVal(n) == [type |-> "int", val |-> n]
StrVal == [type |-> "str", val |-> 0]

IndexValues(N) == {IntVal(n) : n \in 0..N} \cup {StrVal}

\* A field of the reply is present with a string in it, or missing.
FieldStates == {"str", "missing"}

ImageSelectionCandidates(N) ==
    [selected_indices : SeqsUpTo(IndexValues(N), MaxLen), reasons : FieldStates]

\* One element of images; of its fields only path is told apart here.
ImageAnalysisCandidates == [path : FieldStates]

DataExtractionCandidates ==
    [images : SeqsUpTo(ImageAnalysisCandidates, MaxLen), preliminary_story : FieldStates]

TextOutput == [text |-> "str"]

\* class ImageSelectionResponse: selected_indices: List[int]; reasons: str
ImageSelectionResponse(c) ==
    /\ c.reasons = "str"
    /\ \A i \in 1..Len(c.selected_indices) : c.selected_indices[i].type = "int"

\* class ImageAnalysis: path: str (timestamp, location Optional)
ImageAnalysis(c) == c.path = "str"

\* class DataExtractionResponse: images: List[ImageAnalysis]; preliminary_story: str
DataExtractionResponse(c) ==
    /\ c.preliminary_story = "str"
    /\ \A i \in 1..Len(c.images) : ImageAnalysis(c.images[i])

OutputCandidates(agent, N) ==
    CASE output_schema(agent) = "ImageSelectionResponse" -> ImageSelectionCandidates(N)
      [] output_schema(agent) = "DataExtractionResponse" -> DataExtractionCandidates
      [] OTHER -> {TextOutput}

\* Validation of an agent's reply against its output_schema, if it has one.
validate(agent, c) ==
    CASE output_schema(agent) = "ImageSelectionResponse" -> ImageSelectionResponse(c)
      [] output_schema(agent) = "DataExtractionResponse" -> DataExtractionResponse(c)
      [] OTHER -> TRUE

\* ------------------------------------------------------------- state
VARIABLES
    runState,       \* "Pending", "Running", "Completed", "Failed"
    batchSize,      \* number of images in the batch of this run
    calls,          \* the delegation calls issued so far, by call id
    stack,          \* ids of the calls being executed, innermost last
    candidate,      \* the validated reply waiting to be returned, or NoCandidate
    selectedCount,  \* length of the last accepted selected_indices, -1 if none
    questions,      \* calls whose question has been asked and not answered
    searches,       \* the google_search invocations made
    error           \* what ended the run in Failed

vars == <<runState, batchSize, calls, stack, candidate, selectedCount,
          questions, searches, error>>

\* The request a delegation call carries: two different ones are told apart.
Inputs == {"request_a", "request_b"}
NoResult == [producer |-> NoAgent, forInput |-> "none"]
NoCandidate == [call |-> 0]
NoError == [stage |-> NoAgent, why |-> "none"]
Terminal == {"Completed", "Failed", "Aborted"}

\* The agent whose model is running: the innermost delegate, or the root.
ActiveAgent == IF stack = <<>> THEN am ELSE calls[stack[Len(stack)]].target
\* The root's delegate being executed, if any.
ActiveDelegate == IF stack = <<>> THEN NoAgent ELSE calls[stack[1]].target
\* The frame (call id) the active agent runs in; 0 is the root's.
ActiveFrame == IF stack = <<>> THEN 0 ELSE stack[Len(stack)]

Init ==
    /\ runState = "Pending"
    /\ batchSize \in 1..MaxBatch
    /\ calls = <<>>
    /\ stack = <<>>
    /\ candidate = NoCandidate
    /\ selectedCount = -1
    /\ questions = {}
    /\ searches = {}
    /\ error = NoError

\* The caller hands the root agent a batch of images.
Start ==
    /\ runState = "Pending"
    /\ runState' = "Running"
    /\ UNCHANGED <<batchSize, calls, stack, candidate, selectedCount,
                   questions, searches, error>>

\* The active agent's model emits a call of one of the agents it can invoke.
DelegateUnguarded(t, input) ==
    /\ candidate = NoCandidate
    /\ Len(calls) < MaxCalls
    /\ t \in Callable(ActiveAgent)
    /\ calls' = Append(calls, [caller |-> ActiveAgent, frame |-> ActiveFrame,
                               target |-> t, input |-> input,
                               status |-> "pending", result |-> NoResult])
    /\ UNCHANGED <<runState, batchSize, stack, candidate, selectedCount,
                   questions, searches, error>>

Delegate(t, input) ==
    /\ runState = "Running"
    /\ candidate = NoCandidate
    /\ Len(calls) < MaxCalls
    /\ t \in Callable(ActiveAgent)
    /\ calls' = Append(calls, [caller |-> ActiveAgent, frame |-> ActiveFrame,
                               target |-> t, input |-> input,
                               status |-> "pending", result |-> NoResult])
    /\ UNCHANGED <<runState, batchSize, stack, candidate, selectedCount,
                   questions, searches, error>>

\* An emitted call is routed to the agent it names, which starts running.
Route(id) ==
    /\ runState = "Running"
    /\ candidate = NoCandidate
    /\ id \in 1..Len(calls)
    /\ calls[id].status = "pending"
    /\ calls[id].frame = ActiveFrame
    /\ calls' = [calls EXCEPT ![id].status = "active"]
    /\ stack' = Append(stack, id)
    /\ UNCHANGED <<runState, batchSize, candidate, selectedCount,
                   questions, searches, error>>

\* The active agent uses the google_search tool it was given.
WebSearch ==
    /\ runState = "Running"
    /\ candidate = NoCandidate
    /\ google_search \in tools(ActiveAgent)
    /\ Cardinality(searches) < MaxSearches
    /\ searches' = searches \cup {[by |-> ActiveAgent, delegate |-> ActiveDelegate,
                                   n |-> Cardinality(searches) + 1]}
    /\ UNCHANGED <<runState, batchSize, calls, stack, candidate, selectedCount,
                   questions, error>>

\* Every call the active frame emitted has been answered.
NoOpenCalls ==
    \A i \in 1..Len(calls) : calls[i].frame = ActiveFrame => calls[i].status = "done"

\* A delegate's model gives its final reply; the reply is validated against
\* the delegate's output_schema.  An accepted reply waits to be returned to
\* the caller; a reply the schema rejects raises out of the tool call and
\* ends the run, with the rejecting schema recorded.
Respond(c) ==
    /\ runState = "Running"
    /\ candidate = NoCandidate
    /\ stack # <<>>
    /\ NoOpenCalls
    /\ c \in OutputCandidates(ActiveAgent, batchSize)
    /\ IF validate(ActiveAgent, c)
       THEN /\ candidate' = [call |-> ActiveFrame, producer |-> ActiveAgent,
                             forInput |-> calls[ActiveFrame].input, output |-> c]
            /\ UNCHANGED <<runState, error>>
       ELSE /\ runState' = "Failed"
            /\ error' = [stage |-> ActiveAgent, why |-> output_schema(ActiveAgent)]
            /\ UNCHANGED candidate
    /\ UNCHANGED <<batchSize, calls, stack, selectedCount, questions, searches>>

\* The call a reply is the response of: responses carry the id of their call.
FunctionResponseByArrival(cand) ==
    CHOOSE i \in 1..Len(calls) :
        /\ calls[i].status # "done"
        /\ calls[i].frame = calls[cand.call].frame
        /\ \A j \in 1..Len(calls) :
              (calls[j].status # "done" /\ calls[j].frame = calls[cand.call].frame)
                  => i <= j

FunctionResponseId(cand) == cand.call

\* The accepted reply is returned to the caller as the result of its call.
\* A reply of question_asker is a question put to the user: as a tool of the
\* root it returns at once, and no answer of the user arrives inside the run.
Deliver ==
    /\ runState = "Running"
    /\ candidate # NoCandidate
    /\ calls' = [calls EXCEPT ![FunctionResponseId(candidate)] =
                    [@ EXCEPT !.status = "done",
                              !.result = [producer |-> candidate.producer,
                                          forInput |-> candidate.forInput]]]
    /\ stack' = SubSeq(stack, 1, Len(stack) - 1)
    /\ candidate' = NoCandidate
    /\ selectedCount' = IF candidate.producer = duplicate_remover_agent
                        THEN Len(candidate.output.selected_indices)
                        ELSE selectedCount
    /\ questions' = IF candidate.producer = question_asker
                    THEN questions \cup {candidate.call}
                    ELSE questions
    /\ UNCHANGED <<runState, batchSize, searches, error>>

\* The root's model replies without a further call: the run is complete.
Finish ==
    /\ runState = "Running"
    /\ candidate = NoCandidate
    /\ stack = <<>>
    /\ NoOpenCalls
    /\ runState' = "Completed"
    /\ UNCHANGED <<batchSize, calls, stack, candidate, selectedCount,
                   questions, searches, error>>

Next ==
    \/ Start
    \/ \E t \in Agents, input \in Inputs : Delegate(t, input)
    \/ \E id \in 1..MaxCalls : Route(id)
    \/ WebSearch
    \/ \E c \in OutputCandidates(ActiveAgent, batchSize) : Respond(c)
    \/ Deliver
    \/ Finish

Spec == Init /\ [][Next]_vars

\* ------------------------------------------------------------- claims
SubStages == {duplicate_remover_agent, data_extractor_agent, question_asker,
              landmark_search_agent}

\* The invariant the data model states for a SelectionResult over a batch of
\* N images: integer indices in [0, N), no index twice, at most MaxSelected.
SelectionInvariant(s, N) ==
    /\ \A i \in 1..Len(s) : s[i].type = "int" /\ s[i].val >= 0 /\ s[i].val < N
    /\ \A i, j \in 1..Len(s) : i # j => s[i] # s[j]
    /\ Len(s) <= MaxSelected

\* C1: a reply of the selection stage that validation accepts has unique
\* integer indices, all within [0, batchSize), and at most MaxSelected of them.
C1_AcceptedSelectionIsValid ==
    (candidate # NoCandidate /\ candidate.producer = duplicate_remover_agent)
        => SelectionInvariant(candidate.output.selected_indices, batchSize)

\* C2: a reply of the extraction stage is accepted only if it has as many
\* images as the preceding selection of the same run selected indices.
C2_AcceptedExtractionMatchesSelection ==
    (/\ candidate # NoCandidate
     /\ candidate.producer = data_extractor_agent
     /\ selectedCount >= 0)
        => Len(candidate.output.images) = selectedCount

C6_AtMostOneQuestionAwaiting == Cardinality(questions) <= 1

\* C8: every invocation is of something the invoking agent declared in its
\* tools; a sub-stage never invokes the root or another sub-stage, and a
\* sub-stage is invoked by the root only.
C8_OnlyDeclaredCapabilities ==
    /\ \A i \in 1..Len(calls) :
          /\ calls[i].target \in tools(calls[i].caller)
          /\ calls[i].caller \in SubStages => calls[i].target \notin {am} \cup SubStages
          /\ calls[i].target \in SubStages => calls[i].caller = am
    /\ \A s \in searches : google_search \in tools(s.by)

\* C8 witness: a sub-stage has invoked an agent of its own and got its answer.
C8_Witness ==
    \E i \in 1..Len(calls) :
        /\ calls[i].caller \in SubStages
        /\ calls[i].status = "done"

C10_FixedDelegatesAndSearch ==
    /\ \A i \in 1..Len(calls) :
          calls[i].caller = am =>
              calls[i].target \in {"duplicate_remover_agent", "data_extractor_agent",
                                   "question_asker"}
    /\ ActiveDelegate # landmark_search_agent
    /\ \A s \in searches : s.by = Agent_Search /\ s.delegate = data_extractor_agent

\* C10 witness: a web search has been made.
C10_Witness == searches # {}

====
